---- MODULE Spec2Model ----
(***************************************************************************)
(* The LaTeX micro-parser of scripts/utils.py:                             *)
(*   find_matching_brace  (the brace matcher),                             *)
(*   extract_latex_args   (the argument extractor),                        *)
(*   parse_cventry        (the entry scanner).                             *)
(* A text is a sequence of one-character strings.  Positions are Python    *)
(* offsets (0-based); Python's negative indexing is modelled as it is.     *)
(* Each function is a small step machine; a caller waits for its callee.   *)
(***************************************************************************)
EXTENDS Integers, Sequences, FiniteSets, TLC

VARIABLES
    text,        \* the document / the text argument of the top-level call
    fmb_pc,      \* find_matching_brace: "idle", "call", "loop", "done", "raised"
    start_pos,   \* find_matching_brace: argument start_pos
    count,       \* find_matching_brace: local count (brace depth)
    fmb_pos,     \* find_matching_brace: local pos (the cursor)
    fmb_ret,     \* find_matching_brace: returned value
    ela_pc,      \* extract_latex_args: "idle", "call", "arg", "wait", "ret", "done", "raised"
    start,       \* extract_latex_args: argument start
    num_args,    \* extract_latex_args: argument num_args
    args,        \* extract_latex_args: local args
    ela_pos,     \* extract_latex_args: local pos (the cursor)
    arg_num,     \* extract_latex_args: loop variable arg_num
    ela_ret,     \* extract_latex_args: returned pair [ok, args, end]
    pcv_pc,      \* parse_cventry: "idle", "call", "search", "wait", "done"
    pos,         \* parse_cventry: local pos (the scan cursor)
    entries,     \* parse_cventry: local entries
    entry_num,   \* parse_cventry: local entry_num
    match_pos,   \* parse_cventry: local match_pos
    fpr_pc,      \* get_latest_merged_pr: "idle", "loop", "request", "handle", "done"
    attempt,     \* get_latest_merged_pr: loop variable attempt
    responses,   \* get_latest_merged_pr: how each requests.get so far ended
    fpr_ret      \* get_latest_merged_pr: returned triple

fmb_vars == <<fmb_pc, start_pos, count, fmb_pos, fmb_ret>>
ela_vars == <<ela_pc, start, num_args, args, ela_pos, arg_num, ela_ret>>
pcv_vars == <<pcv_pc, pos, entries, entry_num, match_pos>>
fpr_vars == <<fpr_pc, attempt, responses, fpr_ret>>
vars == <<text, fmb_pc, start_pos, count, fmb_pos, fmb_ret,
          ela_pc, start, num_args, args, ela_pos, arg_num, ela_ret,
          pcv_pc, pos, entries, entry_num, match_pos,
          fpr_pc, attempt, responses, fpr_ret>>

(***************************************************************************)
(* Bounds of the model.                                                    *)
(***************************************************************************)
MaxLen == 5
MaxExtractLen == 5
MaxNeg == 2
MaxArgs == 2
MaxBlocks == 3

(***************************************************************************)
(* Characters and Python's indexing.                                       *)
(***************************************************************************)
BS == "\\"
LB == "{"
RB == "}"
SP == " "

FAILURE == -1

\* the absent document: not a sequence of characters
None == <<"None">>

\* a variant of the test that lets the absent document through
NotTextEmptyOnly(t) == t = <<>>

\* not text
NotText(t) == t = <<>> \/ t = None

\* text[p] raises IndexError unless -len <= p < len
IndexOK(t, p) == (0 - Len(t)) <= p /\ p < Len(t)

\* the offset text[p] reads, for p in range (a negative p counts from the end)
WrapIndex(t, p) == IF p < 0 THEN Len(t) + p ELSE p

\* text[p]
CharAt(t, p) == t[WrapIndex(t, p) + 1]

ClampIndex(t, k) ==
    IF k < 0 THEN (IF Len(t) + k < 0 THEN 0 ELSE Len(t) + k)
    ELSE (IF k > Len(t) THEN Len(t) ELSE k)

\* text[i:j]
PySlice(t, i, j) ==
    LET a == ClampIndex(t, i)
        b == ClampIndex(t, j)
    IN  IF b <= a THEN <<>> ELSE SubSeq(t, a + 1, b)

(***************************************************************************)
(* find_matching_brace(text, start_pos)                                    *)
(***************************************************************************)
RECURSIVE CountBackslashes(_, _)
\* the backward loop: while temp_pos >= 0 and text[temp_pos] == '\\'
CountBackslashes(t, temp_pos) ==
    IF temp_pos >= 0 /\ CharAt(t, temp_pos) = BS
    THEN 1 + CountBackslashes(t, temp_pos - 1)
    ELSE 0

\* num_backslashes for the character at p (temp_pos starts at p - 1)
NumBackslashes(t, p) == CountBackslashes(t, p - 1)

\* is_escaped = (num_backslashes % 2 == 1)
IsEscaped(t, p) == NumBackslashes(t, p) % 2 = 1

\* the new count after the character at p
NextCount(t, p, c) ==
    IF ~IsEscaped(t, p)
    THEN (IF CharAt(t, p) = LB THEN c + 1
          ELSE IF CharAt(t, p) = RB THEN c - 1
          ELSE c)
    ELSE c

\* if not text or start_pos >= len(text)
FmbInvalid(t, s) == NotText(t) \/ s >= Len(t)

\* a variant that returns the offset of the closing brace itself
FmbResultAtBrace(c, p) == IF c = 0 THEN p - 1 ELSE FAILURE

\* return pos if count == 0 else -1
FmbResult(c, p) == IF c = 0 THEN p ELSE FAILURE

FmbEnter ==
    /\ fmb_pc = "call"
    /\ IF FmbInvalid(text, start_pos)
       THEN /\ fmb_pc' = "done"
            /\ fmb_ret' = FAILURE
            /\ UNCHANGED <<count, fmb_pos>>
       ELSE /\ fmb_pc' = "loop"
            /\ count' = 1
            /\ fmb_pos' = start_pos
            /\ UNCHANGED fmb_ret
    /\ UNCHANGED <<text, fpr_vars, start_pos, ela_vars, pcv_vars>>

\* one iteration of: while pos < len(text) and count > 0
FmbLoop ==
    /\ fmb_pc = "loop"
    /\ fmb_pos < Len(text) /\ count > 0
    /\ IF IndexOK(text, fmb_pos)
       THEN /\ count' = NextCount(text, fmb_pos, count)
            /\ fmb_pos' = fmb_pos + 1
            /\ UNCHANGED fmb_pc
       ELSE /\ fmb_pc' = "raised"          \* text[pos]: IndexError
            /\ UNCHANGED <<count, fmb_pos>>
    /\ UNCHANGED <<text, fpr_vars, start_pos, fmb_ret, ela_vars, pcv_vars>>

FmbReturn ==
    /\ fmb_pc = "loop"
    /\ ~(fmb_pos < Len(text) /\ count > 0)
    /\ fmb_pc' = "done"
    /\ fmb_ret' = FmbResult(count, fmb_pos)
    /\ UNCHANGED <<text, fpr_vars, start_pos, count, fmb_pos, ela_vars, pcv_vars>>

NextMatch == FmbEnter \/ FmbLoop \/ FmbReturn

(***************************************************************************)
(* extract_latex_args(text, start, num_args)                               *)
(***************************************************************************)
\* a variant that skips the carriage return too
SkippedCharsWithReturn == {SP, "\n", "\t", "\r"}

\* the characters of ' \n\t'
SkippedChars == {SP, "\n", "\t"}

RECURSIVE SkipWhitespace(_, _)
\* while pos < len(text) and text[pos] in ' \n\t': pos += 1   (for p >= -len)
SkipWhitespace(t, p) ==
    IF p < Len(t) /\ CharAt(t, p) \in SkippedChars
    THEN SkipWhitespace(t, p + 1)
    ELSE p

\* if not text or start >= len(text) or num_args <= 0
ElaInvalid(t, s, n) == NotText(t) \/ s >= Len(t) \/ n <= 0

\* a variant that returns the advanced cursor
ElaFailureAtCursor(s, p) == [ok |-> FALSE, args |-> <<>>, end |-> p]

\* return None, start   (s is start, p the cursor at the time of the failure)
ElaFailure(s, p) == [ok |-> FALSE, args |-> <<>>, end |-> s]

\* a variant that keeps the enclosing braces
ArgumentWithBraces(t, p, e) == PySlice(t, p, e)

\* text[pos + 1:end - 1]
Argument(t, p, e) == PySlice(t, p + 1, e - 1)

ElaEnter ==
    /\ ela_pc = "call"
    /\ IF ElaInvalid(text, start, num_args)
       THEN /\ ela_pc' = "done"
            /\ ela_ret' = ElaFailure(start, start)
            /\ UNCHANGED <<args, ela_pos, arg_num>>
       ELSE /\ ela_pc' = "arg"
            /\ args' = <<>>
            /\ ela_pos' = start
            /\ arg_num' = 1
            /\ UNCHANGED ela_ret
    /\ UNCHANGED <<text, fpr_vars, start, num_args, fmb_vars, pcv_vars>>

\* the head of one iteration of: for arg_num in range(1, num_args + 1)
ElaArg ==
    /\ ela_pc = "arg"
    /\ IF ela_pos < Len(text) /\ ~IndexOK(text, ela_pos)
       THEN /\ ela_pc' = "raised"          \* text[pos]: IndexError
            /\ UNCHANGED <<ela_pos, ela_ret, fmb_vars>>
       ELSE LET p == SkipWhitespace(text, ela_pos)
            IN  /\ ela_pos' = p
                /\ IF p >= Len(text) \/ CharAt(text, p) # LB
                   THEN /\ ela_pc' = "done"
                        /\ ela_ret' = ElaFailure(start, p)
                        /\ UNCHANGED fmb_vars
                   ELSE /\ ela_pc' = "wait"
                        /\ fmb_pc' = "call"
                        /\ start_pos' = p + 1
                        /\ UNCHANGED <<ela_ret, count, fmb_pos, fmb_ret>>
    /\ UNCHANGED <<text, fpr_vars, start, num_args, args, arg_num, pcv_vars>>

\* end = find_matching_brace(...) has returned
ElaAfterMatch ==
    /\ ela_pc = "wait"
    /\ fmb_pc \in {"done", "raised"}
    /\ fmb_pc' = "idle"
    /\ IF fmb_pc = "raised"
       THEN /\ ela_pc' = "raised"
            /\ UNCHANGED <<args, ela_pos, arg_num, ela_ret>>
       ELSE IF fmb_ret = FAILURE
       THEN /\ ela_pc' = "done"
            /\ ela_ret' = ElaFailure(start, ela_pos)
            /\ UNCHANGED <<args, ela_pos, arg_num>>
       ELSE /\ args' = Append(args, Argument(text, ela_pos, fmb_ret))
            /\ ela_pos' = fmb_ret
            /\ IF arg_num < num_args
               THEN arg_num' = arg_num + 1 /\ ela_pc' = "arg"
               ELSE arg_num' = arg_num /\ ela_pc' = "ret"
            /\ UNCHANGED ela_ret
    /\ UNCHANGED <<text, fpr_vars, start, num_args, start_pos, count, fmb_pos, fmb_ret, pcv_vars>>

\* return args, pos
ElaReturn ==
    /\ ela_pc = "ret"
    /\ ela_pc' = "done"
    /\ ela_ret' = [ok |-> TRUE, args |-> args, end |-> ela_pos]
    /\ UNCHANGED <<text, fpr_vars, start, num_args, args, ela_pos, arg_num, fmb_vars, pcv_vars>>

NextExtract == ElaEnter \/ ElaArg \/ ElaAfterMatch \/ ElaReturn \/ NextMatch

(***************************************************************************)
(* parse_cventry(text)                                                     *)
(***************************************************************************)
\* the literal the pattern r'\\cventry' matches
Marker == <<BS, "c", "v", "e", "n", "t", "r", "y">>

\* the literal head of the pattern r'\\href\{([^}]+)\}\{([^}]+)\}'
HrefHead == <<BS, "h", "r", "e", "f", LB>>

\* pat occurs in s at offset i
OccursAt(s, pat, i) ==
    /\ i >= 0
    /\ i + Len(pat) <= Len(s)
    /\ SubSeq(s, i + 1, i + Len(pat)) = pat

\* the offsets at which pat occurs in s
Occurrences(s, pat) == {i \in 0..Len(s) : OccursAt(s, pat, i)}

Least(S) == CHOOSE x \in S : \A y \in S : x <= y

\* re.search(r'\\cventry', text[pos:]): match.end() of the leftmost match in
\* the slice, FAILURE when there is no match
SearchMarker(t, p) ==
    LET rest == PySlice(t, p, Len(t))
    IN  IF Occurrences(rest, Marker) = {}
        THEN FAILURE
        ELSE Least(Occurrences(rest, Marker)) + Len(Marker)

\* the offsets >= from at which s holds a closing brace
ClosingBraces(s, from) == {j \in from..(Len(s) - 1) : s[j + 1] = RB}

\* the pattern r'\\href\{([^}]+)\}\{([^}]+)\}' matches s at offset i:
\* each group is the non-empty run of non-'}' characters up to the next '}'
HrefMatchesAt(s, i) ==
    /\ OccursAt(s, HrefHead, i)
    /\ ClosingBraces(s, i + 6) # {}
    /\ LET j == Least(ClosingBraces(s, i + 6))
       IN  /\ j > i + 6
           /\ j + 1 < Len(s)
           /\ s[j + 2] = LB
           /\ ClosingBraces(s, j + 2) # {}
           /\ Least(ClosingBraces(s, j + 2)) > j + 2

HrefMatches(s) == {i \in 0..Len(s) : HrefMatchesAt(s, i)}

\* link_match.group(1), for the leftmost match
HrefUrl(s) ==
    LET i == Least(HrefMatches(s))
        j == Least(ClosingBraces(s, i + 6))
    IN  SubSeq(s, i + 7, j)

\* link_match.group(2), for the leftmost match
HrefLabel(s) ==
    LET i == Least(HrefMatches(s))
        j == Least(ClosingBraces(s, i + 6))
        k == Least(ClosingBraces(s, j + 2))
    IN  SubSeq(s, j + 3, k)

\* the characters str.strip() removes
Whitespace == {SP, "\t", "\n", "\r", "\f"}

RECURSIVE Strip(_)
\* s.strip()
Strip(s) ==
    IF s = <<>> THEN s
    ELSE IF Head(s) \in Whitespace THEN Strip(Tail(s))
    ELSE IF s[Len(s)] \in Whitespace THEN Strip(SubSeq(s, 1, Len(s) - 1))
    ELSE s

\* the dict appended for the four arguments a
EntryRecord(a) ==
    LET link_content == a[3]
        found == HrefMatches(link_content) # {}
        url == IF found THEN HrefUrl(link_content) ELSE <<>>
        link_text == IF found THEN HrefLabel(link_content) ELSE link_content
    IN  [title |-> Strip(a[1]),
         tech |-> Strip(a[2]),
         link_url |-> Strip(url),
         link_text |-> Strip(link_text),
         content |-> Strip(a[4])]

\* if args and len(args) == 4
ExtractedFour(r) == r.ok /\ r.args # <<>> /\ Len(r.args) = 4

\* variants of the skip: to the marker's end, back to its start, two past its end
FailCursorAtMarkerEnd(mp) == mp

FailCursorAtMarkerStart(mp) == mp - Len(Marker)

FailCursorTwoPast(mp) == mp + 2

\* pos = match_pos + 1
FailCursor(mp) == mp + 1

\* a variant that resumes the scan at the opening brace of the last argument
SuccessCursorInsideEntry(r) == r.end - Len(r.args[4]) - 2

\* pos = end_pos
SuccessCursor(r) == r.end

PcvEnter ==
    /\ pcv_pc = "call"
    /\ IF NotText(text)
       THEN /\ pcv_pc' = "done"             \* return []
            /\ UNCHANGED <<pos, entries, entry_num>>
       ELSE /\ pcv_pc' = "search"
            /\ entries' = <<>>
            /\ pos' = 0
            /\ entry_num' = 0
    /\ UNCHANGED <<text, fpr_vars, match_pos, fmb_vars, ela_vars>>

\* the head of one iteration of: while True
PcvSearch ==
    /\ pcv_pc = "search"
    /\ LET m == SearchMarker(text, pos)
       IN  IF text = None
           THEN /\ pcv_pc' = "raised"       \* text[pos:] of None: TypeError
                /\ UNCHANGED <<entry_num, match_pos, ela_vars>>
           ELSE IF m = FAILURE
           THEN /\ pcv_pc' = "done"         \* break; return entries
                /\ UNCHANGED <<entry_num, match_pos, ela_vars>>
           ELSE /\ pcv_pc' = "wait"
                /\ entry_num' = entry_num + 1
                /\ match_pos' = pos + m
                /\ ela_pc' = "call"
                /\ start' = pos + m
                /\ num_args' = 4
                /\ UNCHANGED <<args, ela_pos, arg_num, ela_ret>>
    /\ UNCHANGED <<text, fpr_vars, pos, entries, fmb_vars>>

\* args, end_pos = extract_latex_args(...) has returned
PcvAfterExtract ==
    /\ pcv_pc = "wait"
    /\ ela_pc \in {"done", "raised"}
    /\ ela_pc' = "idle"
    /\ IF ela_pc = "raised"
       THEN /\ pcv_pc' = "raised"
            /\ UNCHANGED <<pos, entries>>
       ELSE IF ExtractedFour(ela_ret)
       THEN /\ entries' = Append(entries, EntryRecord(ela_ret.args))
            /\ pos' = SuccessCursor(ela_ret)
            /\ pcv_pc' = "search"
       ELSE /\ pos' = FailCursor(match_pos)
            /\ pcv_pc' = "search"
            /\ UNCHANGED entries
    /\ UNCHANGED <<text, fpr_vars, entry_num, match_pos, start, num_args, args, ela_pos,
                   arg_num, ela_ret, fmb_vars>>

Next == PcvEnter \/ PcvSearch \/ PcvAfterExtract \/ NextExtract

(***************************************************************************)
(* get_latest_merged_pr() of scripts/fetch_latest_pr.py                    *)
(***************************************************************************)
MAX_RETRIES == 3

\* return None, None, None
Nones == <<None, None, None>>

\* return title, pr_url, repo_path: three texts, here "t", "u" and "r"
Found == <<<<"t">>, <<"u">>, <<"r">>>>

\* the status codes of the error responses, client and server side
HttpErrorStatuses == {401, 403, 404, 500, 503}

\* how one requests.get(...) can end: no response (a timeout, another network
\* error), an error response, or a response whose data holds a well-formed
\* item, no item, or an item that lacks a key
Outcomes ==
    [kind : {"timeout", "network"}, status : {0}, data : {"none"}]
        \cup [kind : {"response"}, status : HttpErrorStatuses, data : {"none"}]
        \cup [kind : {"response"}, status : {200}, data : {"item", "empty", "malformed"}]

\* response.raise_for_status() raises HTTPError
RaisesForStatus(status) == status >= 400

\* a variant that retries after client errors too
HttpRetryClientErrors(status) == status >= 400

\* response.status_code >= 500
HttpRetry(status) == status >= 500

\* the head of: for attempt in range(1, MAX_RETRIES + 1)
FprLoop ==
    /\ fpr_pc = "loop"
    /\ attempt' = attempt + 1
    /\ IF attempt + 1 <= MAX_RETRIES
       THEN /\ fpr_pc' = "request"
            /\ UNCHANGED fpr_ret
       ELSE /\ fpr_pc' = "done"             \* the return after the loop
            /\ fpr_ret' = Nones
    /\ UNCHANGED <<responses, text, fmb_vars, ela_vars, pcv_vars>>

\* response = requests.get(url, headers=headers, timeout=GITHUB_API_TIMEOUT)
FprRequest ==
    /\ fpr_pc = "request"
    /\ \E o \in Outcomes : responses' = Append(responses, o)
    /\ fpr_pc' = "handle"
    /\ UNCHANGED <<attempt, fpr_ret, text, fmb_vars, ela_vars, pcv_vars>>

\* the rest of the try block and the except clauses
FprHandle ==
    /\ fpr_pc = "handle"
    /\ LET o == responses[Len(responses)]
           retry == IF o.kind \in {"timeout", "network"}
                    THEN attempt < MAX_RETRIES
                    ELSE /\ RaisesForStatus(o.status)
                         /\ attempt < MAX_RETRIES
                         /\ HttpRetry(o.status)
       IN  IF retry
           THEN /\ fpr_pc' = "loop"         \* time.sleep(RETRY_DELAY)
                /\ UNCHANGED fpr_ret
           ELSE /\ fpr_pc' = "done"
                /\ fpr_ret' = IF o.kind = "response" /\ ~RaisesForStatus(o.status)
                                  /\ o.data = "item"
                               THEN Found
                               ELSE Nones
    /\ UNCHANGED <<attempt, responses, text, fmb_vars, ela_vars, pcv_vars>>

NextFetch == FprLoop \/ FprRequest \/ FprHandle

(***************************************************************************)
(* Texts of the direct calls.                                              *)
(***************************************************************************)
MatchAlphabet == {LB, RB, BS, "a"}

TextsOver(alphabet, n) == UNION {[1..k -> alphabet] : k \in 0..n}

FmbIdle ==
    /\ fmb_pc = "idle" /\ start_pos = 0 /\ count = 0 /\ fmb_pos = 0 /\ fmb_ret = 0

ElaIdle ==
    /\ ela_pc = "idle" /\ start = 0 /\ num_args = 0 /\ args = <<>>
    /\ ela_pos = 0 /\ arg_num = 0
    /\ ela_ret = [ok |-> FALSE, args |-> <<>>, end |-> 0]

PcvIdle ==
    /\ pcv_pc = "idle" /\ pos = 0 /\ entries = <<>> /\ entry_num = 0 /\ match_pos = 0

FprIdle ==
    /\ fpr_pc = "idle" /\ attempt = 0 /\ responses = <<>> /\ fpr_ret = Nones

\* a call get_latest_merged_pr()
InitFetch ==
    /\ text = <<>>
    /\ fpr_pc = "loop"
    /\ attempt = 0 /\ responses = <<>> /\ fpr_ret = Nones
    /\ FmbIdle
    /\ ElaIdle
    /\ PcvIdle

SpecFetch == InitFetch /\ [][NextFetch]_vars

\* a call find_matching_brace(text, start_pos)
InitMatch ==
    /\ text \in TextsOver(MatchAlphabet, MaxLen)
    /\ fmb_pc = "call"
    /\ start_pos \in (0 - MaxNeg)..(Len(text) + 1)
    /\ count = 0 /\ fmb_pos = 0 /\ fmb_ret = 0
    /\ ElaIdle
    /\ PcvIdle
    /\ FprIdle

SpecMatch == InitMatch /\ [][NextMatch]_vars

ExtractAlphabet == {LB, RB, BS, SP, "a"}

\* a call extract_latex_args(text, start, num_args)
InitExtract ==
    /\ text \in TextsOver(ExtractAlphabet, MaxExtractLen)
    /\ ela_pc = "call"
    /\ start \in (0 - MaxNeg)..(Len(text) + 1)
    /\ num_args \in (0 - 1)..MaxArgs
    /\ args = <<>> /\ ela_pos = 0 /\ arg_num = 0
    /\ ela_ret = [ok |-> FALSE, args |-> <<>>, end |-> 0]
    /\ FmbIdle
    /\ PcvIdle
    /\ FprIdle

SpecExtract == InitExtract /\ [][NextExtract]_vars

MaxSkipLen == 4

SkipAlphabet == {LB, RB, SP, "\t", "\n", "\r", "a"}

\* a call extract_latex_args(text, start, num_args) on a text of braces, blanks and letters
InitSkip ==
    /\ text \in TextsOver(SkipAlphabet, MaxSkipLen)
    /\ ela_pc = "call"
    /\ start \in (0 - MaxNeg)..Len(text)
    /\ num_args \in 1..MaxArgs
    /\ args = <<>> /\ ela_pos = 0 /\ arg_num = 0
    /\ ela_ret = [ok |-> FALSE, args |-> <<>>, end |-> 0]
    /\ FmbIdle
    /\ PcvIdle
    /\ FprIdle

SpecSkip == InitSkip /\ [][NextExtract]_vars

(***************************************************************************)
(* Documents of the scan: up to MaxBlocks blocks, one after the other.     *)
(***************************************************************************)
Group(x) == <<LB>> \o x \o <<RB>>

Entry(t, k, l, c) == Marker \o Group(t) \o Group(k) \o Group(l) \o Group(c)

\* \cventry{a}{}{a}{ a}
EntryA == Entry(<<"a">>, <<>>, <<"a">>, <<SP, "a">>)

\* \cventry{b}{a}{\href{u}{b}}{\}}
EntryB ==
    Entry(<<"b">>, <<"a">>, HrefHead \o <<"u", RB>> \o Group(<<"b">>), <<BS, RB>>)

WellFormedBlocks == {EntryA, EntryB}

\* \cventry      \cventry{a}{a}{a}      \cventry{a}{a}{a}{
BareMarker == Marker
ThreeGroups == Marker \o Group(<<"a">>) \o Group(<<"a">>) \o Group(<<"a">>)
OpenFourth == ThreeGroups \o <<LB>>

TruncatedBlocks == {BareMarker, ThreeGroups, OpenFourth}

FillerBlocks == {Group(<<"a">>), <<RB>>, <<SP>>, <<BS>>}

Blocks == WellFormedBlocks \cup TruncatedBlocks \cup FillerBlocks

RECURSIVE Documents(_)
Documents(n) ==
    IF n = 0 THEN {<<>>}
    ELSE Documents(n - 1) \cup {d \o b : d \in Documents(n - 1), b \in Blocks}

\* a call parse_cventry(text)
Init ==
    /\ text \in Documents(MaxBlocks) \cup {None}
    /\ pcv_pc = "call"
    /\ pos = 0 /\ entries = <<>> /\ entry_num = 0 /\ match_pos = 0
    /\ FmbIdle
    /\ ElaIdle
    /\ FprIdle

Spec == Init /\ [][Next]_vars

\* the scan is one sequential program: it takes its next step whenever it has one
FairSpec == Spec /\ WF_vars(Next)

(***************************************************************************)
(* Documents of one entry, built from known field values.                  *)
(***************************************************************************)
MaxFieldUnits == 2
MaxLinkedUnits == 1

\* a field value is a run of units: a letter, a space, an escaped brace
FieldUnits == {<<"a">>, <<SP>>, <<BS, LB>>, <<BS, RB>>}

RECURSIVE FieldValues(_)
\* the field values of exactly n units
FieldValues(n) ==
    IF n = 0 THEN {<<>>}
    ELSE {v \o u : v \in FieldValues(n - 1), u \in FieldUnits}

PlainValues == UNION {FieldValues(n) : n \in 0..MaxFieldUnits}

\* \href{u}{lab}
Link(u, lab) == HrefHead \o u \o <<RB>> \o Group(lab)

\* an argument of a link: empty, plain, with a blank, with a nested group
LinkArgs == {<<>>, <<"u">>, <<SP, "u">>, <<"b">> \o Group(<<"c">>)}

LinkValues == {Link(u, lab) : u \in LinkArgs, lab \in LinkArgs}

\* how many units each of the four fields gets, total units at most n
Splits(n) ==
    {m \in [1..4 -> 0..n] : m[1] + m[2] + m[3] + m[4] <= n}

\* <<t, k, l, c>>: four plain values, or a link between plain values
EntryFields ==
    UNION ({FieldValues(m[1]) \X FieldValues(m[2]) \X FieldValues(m[3])
                \X FieldValues(m[4]) : m \in Splits(MaxFieldUnits)}
           \cup {FieldValues(m[1]) \X FieldValues(m[2]) \X LinkValues
                \X FieldValues(m[4]) :
                    m \in {x \in Splits(MaxLinkedUnits) : x[3] = 0}})

Built(f) == Entry(f[1], f[2], f[3], f[4])

EntryDocuments == {Built(f) : f \in EntryFields}

\* the field values a document was built from
FieldsOf(d) == CHOOSE f \in EntryFields : Built(f) = d

\* a call parse_cventry(text) on a document of one entry
InitEntry ==
    /\ text \in EntryDocuments
    /\ pcv_pc = "call"
    /\ pos = 0 /\ entries = <<>> /\ entry_num = 0 /\ match_pos = 0
    /\ FmbIdle
    /\ ElaIdle
    /\ FprIdle

SpecEntry == InitEntry /\ [][Next]_vars

(***************************************************************************)
(* Brace depth, stated on the text alone (no scan).                        *)
(***************************************************************************)
\* the length of the run of backslashes that ends just before offset i
BackslashRun(t, i) ==
    CHOOSE k \in 0..i :
        /\ \A j \in (i - k)..(i - 1) : t[j + 1] = BS
        /\ (i - k = 0 \/ t[i - k] # BS)

\* the character at offset i is ch and is not escaped
UnescapedAt(t, i, ch) == t[i + 1] = ch /\ BackslashRun(t, i) % 2 = 0

\* the depth after the characters at offsets s .. p-1, starting from depth 1
NetDepth(t, s, p) ==
    1 + Cardinality({i \in s..(p - 1) : UnescapedAt(t, i, LB)})
      - Cardinality({i \in s..(p - 1) : UnescapedAt(t, i, RB)})

\* the end positions at which the depth is 0
ClosingPositions(t, s) == {p \in (s + 1)..Len(t) : NetDepth(t, s, p) = 0}

FirstClosing(t, s) ==
    CHOOSE p \in ClosingPositions(t, s) : \A q \in ClosingPositions(t, s) : p <= q

C2_EscapeParity ==
    [][(fmb_pc = "loop" /\ fmb_pos' = fmb_pos + 1) =>
        LET i == WrapIndex(text, fmb_pos)
            odd == BackslashRun(text, i) % 2 = 1
        IN  /\ (text[i + 1] \in {LB, RB} /\ odd) => count' = count
            /\ (text[i + 1] = LB /\ ~odd) => count' = count + 1
            /\ (text[i + 1] = RB /\ ~odd) => count' = count - 1]_vars

(* C3: for an empty text and for every start_pos outside the text           *)
(* (start_pos >= len(text) or start_pos < 0) find_matching_brace returns    *)
(* -1 and scans nothing.                                                    *)
C3_ValidatesPosition ==
    (text = <<>> \/ start_pos >= Len(text) \/ start_pos < 0) =>
        /\ fmb_pc \notin {"loop", "raised"}
        /\ fmb_pc = "done" => fmb_ret = FAILURE

(* C4: a successful extract_latex_args returns exactly num_args strings in  *)
(* left-to-right order, the i-th being the text strictly between the i-th   *)
(* opening brace and its matching closing brace, and the end position is    *)
(* the offset just after the last argument's closing brace.                 *)
C4_ArgumentsAndEnd ==
    (ela_pc = "done" /\ ela_ret.ok) =>
        /\ Len(ela_ret.args) = num_args
        /\ \E o \in [1..num_args -> 0..(Len(text) - 1)] :
              /\ start <= o[1]
              /\ \A i \in 1..num_args :
                    /\ text[o[i] + 1] = LB
                    /\ ClosingPositions(text, o[i] + 1) # {}
                    /\ ela_ret.args[i] =
                          SubSeq(text, o[i] + 2, FirstClosing(text, o[i] + 1) - 1)
                    /\ i < num_args => FirstClosing(text, o[i] + 1) <= o[i + 1]
              /\ ela_ret.end = FirstClosing(text, o[num_args] + 1)

(* C5: every failure of extract_latex_args returns (None, start) with the   *)
(* caller's start: never the advanced cursor, never a partial list.         *)
C5_FailureIsTotal ==
    (ela_pc = "done" /\ ~ela_ret.ok) =>
        /\ ela_ret.end = start
        /\ ela_ret.args = <<>>

\* a failure after an argument was extracted and the cursor had advanced
C5_Witness ==
    /\ ela_pc = "done"
    /\ ~ela_ret.ok
    /\ Len(args) >= 1
    /\ ela_pos > start

(* C6: extract_latex_args fails at once, returning start and extracting     *)
(* nothing, when text is empty, start is out of range (start >= len(text)   *)
(* or start < 0) or num_args <= 0.                                          *)
C6_RejectsInvalidInput ==
    (text = <<>> \/ start >= Len(text) \/ start < 0 \/ num_args <= 0) =>
        /\ ela_pc \in {"call", "done"}
        /\ fmb_pc = "idle"
        /\ args = <<>>
        /\ ela_pc = "done" => (~ela_ret.ok /\ ela_ret.end = start)

\* the title of a well-formed block, as written in it
TitleOf(w) == IF w = EntryA THEN <<"a">> ELSE <<"b">>

(* C7: for a document made of a well-formed \cventry occurrence, then a     *)
(* malformed one, then a second well-formed one, parse_cventry raises       *)
(* nothing and returns exactly two records, in document order, one per      *)
(* well-formed occurrence.                                                  *)
C7_TwoRecordsAroundMalformed ==
    \A w1 \in WellFormedBlocks, m \in TruncatedBlocks, w2 \in WellFormedBlocks :
        text = w1 \o m \o w2 =>
            /\ pcv_pc # "raised"
            /\ pcv_pc = "done" =>
                  /\ Len(entries) = 2
                  /\ entries[1].title = TitleOf(w1)
                  /\ entries[2].title = TitleOf(w2)

\* a marker occurs in the text at or after offset p
MarkerRemains(p) == \E i \in 0..Len(text) : i >= p /\ OccursAt(text, Marker, i)

(* C8: parse_cventry terminates: every iteration that found a marker moves  *)
(* the cursor strictly forward (to the extractor's end on success, to the   *)
(* marker's end + 1 on failure), the loop ends at once when no marker       *)
(* remains, and the scan reaches its return.                                *)
C8_ScanTerminates ==
    /\ [][/\ (pcv_pc = "wait" /\ pcv_pc' = "search") =>
                /\ pos' > pos
                /\ pos' = IF ExtractedFour(ela_ret) THEN ela_ret.end ELSE match_pos + 1
          /\ (pcv_pc = "search" /\ ~MarkerRemains(pos)) => pcv_pc' = "done"
          /\ (pcv_pc = "search" /\ MarkerRemains(pos)) => pcv_pc' = "wait"]_vars
    /\ <>(pcv_pc = "done")

\* the scan returned after two or more occurrences, every one of them malformed
C8_Witness ==
    /\ pcv_pc = "done"
    /\ entry_num >= 2
    /\ entries = <<>>

InDocument(p) == 0 <= p /\ p <= Len(text)

\* the cursors and results of the matcher and of the extractor
InnerCursorsInDocument ==
    /\ InDocument(start_pos)
    /\ InDocument(fmb_pos)
    /\ fmb_ret = FAILURE \/ InDocument(fmb_ret)
    /\ InDocument(start)
    /\ InDocument(ela_pos)
    /\ InDocument(ela_ret.end)
    /\ InDocument(match_pos)

C10_FailureSkipsOccurrence ==
    [][/\ (pcv_pc = "wait" /\ pcv_pc' = "search" /\ ~ExtractedFour(ela_ret)) =>
             /\ entries' = entries
             /\ pos' = match_pos + 1
       /\ (pcv_pc = "search" /\ pcv_pc' = "wait") =>
             /\ match_pos' > match_pos
             /\ match_pos' > pos]_vars

\* a second occurrence is being attempted after the first one failed
C10_Witness ==
    /\ pcv_pc = "wait"
    /\ entry_num = 2
    /\ entries = <<>>
    /\ pos < match_pos

(* C11: when the extraction succeeds for an occurrence, parse_cventry       *)
(* appends exactly one record for it at the end of the list and sets the    *)
(* cursor to the extractor's end position; records are added by successful  *)
(* extractions only, every later attempt is at a marker that begins at or   *)
(* after that end position, so the records are in the order of their        *)
(* markers and a marker inside a parsed entry's arguments gets no record.   *)
C11_SuccessAppendsOneRecord ==
    [][/\ (pcv_pc = "wait" /\ pcv_pc' = "search" /\ ExtractedFour(ela_ret)) =>
             /\ Len(entries') = Len(entries) + 1
             /\ SubSeq(entries', 1, Len(entries)) = entries
             /\ entries'[Len(entries')].title = Strip(ela_ret.args[1])
             /\ entries'[Len(entries')].content = Strip(ela_ret.args[4])
             /\ pos' = ela_ret.end
             /\ pos' > match_pos
       /\ entries' # entries =>
             (pcv_pc = "wait" /\ pcv_pc' = "search" /\ ExtractedFour(ela_ret))
       /\ (pcv_pc = "search" /\ pcv_pc' = "wait") =>
             /\ match_pos' - Len(Marker) >= pos
             /\ match_pos' > match_pos]_vars

\* one entry was parsed whose arguments hold a second marker, and the scan returned
C11_Witness ==
    /\ pcv_pc = "done"
    /\ Len(entries) = 1
    /\ entry_num = 1
    /\ Cardinality(Occurrences(text, Marker)) = 2

(* C12: for each successfully parsed entry, if the third argument holds a   *)
(* two-argument link wrapper \href{URL}{LABEL} (both groups brace-matched   *)
(* and non-empty), the record's link_url is URL and its link_text is LABEL, *)
(* both trimmed; otherwise link_url is empty and link_text is the whole     *)
(* third argument, trimmed.                                                 *)
WrapperAt(l, i) ==
    /\ OccursAt(l, HrefHead, i)
    /\ ClosingPositions(l, i + 6) # {}
    /\ LET p == FirstClosing(l, i + 6)
       IN  /\ p - 1 > i + 6
           /\ p < Len(l)
           /\ l[p + 1] = LB
           /\ ClosingPositions(l, p + 1) # {}
           /\ FirstClosing(l, p + 1) - 1 > p + 1

Wrappers(l) == {i \in 0..Len(l) : WrapperAt(l, i)}

WrapperUrl(l) ==
    LET i == Least(Wrappers(l))
    IN  SubSeq(l, i + 7, FirstClosing(l, i + 6) - 1)

WrapperLabel(l) ==
    LET p == FirstClosing(l, Least(Wrappers(l)) + 6)
    IN  SubSeq(l, p + 2, FirstClosing(l, p + 1) - 1)

\* s without its leading and trailing blanks
Trimmed(s) ==
    LET inked == {i \in 1..Len(s) : s[i] \notin {SP, "\t", "\n", "\r", "\f"}}
    IN  IF inked = {} THEN <<>>
        ELSE SubSeq(s, Least(inked), CHOOSE j \in inked : \A i \in inked : i <= j)

C12_LinkSplit ==
    [][(pcv_pc = "wait" /\ pcv_pc' = "search" /\ ExtractedFour(ela_ret)) =>
          LET l == ela_ret.args[3]
              r == entries'[Len(entries')]
          IN  IF Wrappers(l) # {}
              THEN /\ r.link_url = Trimmed(WrapperUrl(l))
                   /\ r.link_text = Trimmed(WrapperLabel(l))
              ELSE /\ r.link_url = <<>>
                   /\ r.link_text = Trimmed(l)]_vars

(* C13: parse_cventry never raises, whatever malformed occurrences the      *)
(* document holds: no step of the scan or of the calls it makes ends in an  *)
(* exception, and until it has returned the scan always has a next step;    *)
(* for the empty document and for the absent one (None) the list returned   *)
(* is empty.                                                                *)
C13_Total ==
    /\ pcv_pc # "raised" /\ ela_pc # "raised" /\ fmb_pc # "raised"
    /\ pcv_pc # "done" => ENABLED Next
    /\ (pcv_pc = "done" /\ (text = <<>> \/ text = None)) => entries = <<>>

\* the scan of the absent document has returned
C13_Witness ==
    /\ pcv_pc = "done"
    /\ text = None
    /\ entries = <<>>

(* C14: for a document \cventry{t}{k}{l}{c} built from field values made of  *)
(* letters, blanks and backslash-escaped braces, parse_cventry returns      *)
(* exactly one record whose title, tech, link_text and content equal t, k,  *)
(* l, c exactly.                                                            *)
C14_RoundTripExact ==
    (pcv_pc = "done" /\ FieldsOf(text)[3] \notin LinkValues) =>
        LET f == FieldsOf(text)
        IN  /\ Len(entries) = 1
            /\ entries[1].title = f[1]
            /\ entries[1].tech = f[2]
            /\ entries[1].link_text = f[3]
            /\ entries[1].content = f[4]

(* C14, amended: for such a document parse_cventry returns exactly one      *)
(* record whose title, tech, link_text and content equal t, k, l, c without *)
(* their leading and trailing blanks, and whose link_url is empty; escaped  *)
(* braces and inner blanks are kept as written.                             *)
C14_RoundTripTrimmed ==
    (pcv_pc = "done" /\ FieldsOf(text)[3] \notin LinkValues) =>
        LET f == FieldsOf(text)
        IN  /\ Len(entries) = 1
            /\ entries[1].title = Trimmed(f[1])
            /\ entries[1].tech = Trimmed(f[2])
            /\ entries[1].link_url = <<>>
            /\ entries[1].link_text = Trimmed(f[3])
            /\ entries[1].content = Trimmed(f[4])

\* a field written as a blank and an escaped closing brace came back trimmed
C14_Witness ==
    /\ pcv_pc = "done"
    /\ Len(entries) = 1
    /\ FieldsOf(text)[4] = <<SP, BS, RB>>
    /\ entries[1].content = <<BS, RB>>

(* C15: before each argument extract_latex_args moves its cursor over a run  *)
(* of space, tab and newline characters and over nothing else, up to the    *)
(* first character that is none of these; if that character is '{' it goes  *)
(* on to match the argument, and if it is anything else (a carriage return  *)
(* too) or the text has ended, the extraction fails with no arguments and   *)
(* the caller's start, also when earlier arguments were already matched.    *)
C15_SkipsBlanksThenBrace ==
    [][(ela_pc = "arg" /\ ela_pc' \in {"done", "wait"}) =>
          /\ ela_pos' >= ela_pos
          /\ \A q \in ela_pos..(ela_pos' - 1) : CharAt(text, q) \in {SP, "\t", "\n"}
          /\ ela_pos' < Len(text) => CharAt(text, ela_pos') \notin {SP, "\t", "\n"}
          /\ IF ela_pos' < Len(text) /\ CharAt(text, ela_pos') = LB
             THEN /\ ela_pc' = "wait"
                  /\ start_pos' = ela_pos' + 1
             ELSE /\ ela_pc' = "done"
                  /\ ~ela_ret'.ok
                  /\ ela_ret'.args = <<>>
                  /\ ela_ret'.end = start]_vars

\* after one argument and a skipped space the cursor met a carriage return
C15_Witness ==
    /\ ela_pc = "done"
    /\ ~ela_ret.ok
    /\ Len(args) >= 1
    /\ 0 < ela_pos /\ ela_pos < Len(text)
    /\ text[ela_pos] = SP
    /\ text[ela_pos + 1] = "\r"

(* C16: skipping a malformed occurrence loses nothing but that occurrence:  *)
(* after an extraction failure the search resumes at a position from which  *)
(* every marker that begins at or after the failed marker's end is still    *)
(* found.                                                                   *)
C16_SkipLosesNothing ==
    [][(pcv_pc = "wait" /\ pcv_pc' = "search" /\ ~ExtractedFour(ela_ret)) =>
          \A i \in Occurrences(text, Marker) : i >= match_pos => i >= pos']_vars

(* C17: get_latest_merged_pr issues at most 3 requests and always returns   *)
(* a triple; a further request is made only after fewer than 3 requests,    *)
(* the last of which ended in a timeout, another network error or an HTTP   *)
(* error with status >= 500; an HTTP error below 500, a data-parsing error  *)
(* or a successful response ends the loop at once, and after the third      *)
(* failed attempt the result is (None, None, None).                         *)
Retryable(o) ==
    \/ o.kind \in {"timeout", "network"}
    \/ o.kind = "response" /\ o.status >= 500

LastResponse == responses[Len(responses)]

====
